---- MODULE Spec2Model ----
(***************************************************************************)
(* A model of run/run_af3.py: the script entry point, main, the per-input  *)
(* driver process_fold_input, and the helpers replace_db_dir,              *)
(* write_fold_input_json and write_outputs.                                *)
(*                                                                         *)
(* Strings are sequences of tokens (characters, or whole literals where    *)
(* the code never looks inside them), so that concatenation, substitution  *)
(* and formatting are computed and can collide.  The file system below the *)
(* run's output directory is a function from directory names to            *)
(* directories, a directory being a function from entry names to contents. *)
(***************************************************************************)
EXTENDS Integers, Sequences, FiniteSets, TLC

VARIABLES
  pc,                    \* position of the run: script, main, ..., done, raised
  args_dict,             \* the parsed arguments (get_af3_args)
  environ,               \* os.environ.get("XLA_FLAGS"): <<>> (unset) or <<the flags>>
  gpu_devices,           \* what jax.local_devices(backend='gpu') answered, if asked
  raised,                \* the exception that ended the run, or None
  made_output_dir,       \* main has run os.makedirs(output_dir)
  loader,                \* which loader produced fold_inputs: None, "dir" or "path"
  fold_inputs,           \* the loaded fold inputs
  data_pipeline_config,  \* None, or the expanded database paths
  model_runner,          \* None, or the ModelRunner (with its cached parameters)
  num_fold_inputs,       \* the loop counter of main
  calls,                 \* one record per process_fold_input call made by main
  fs,                    \* the file system below args_dict["output_dir"]
  now,                   \* the wall clock, in seconds
  db_dirs,               \* the --db_dir values
  existing,              \* the database paths that exist on disk
  path_with_db_dir,      \* replace_db_dir: the argument of the call under study
  db_result,             \* replace_db_dir: the outcome of the call under study
  all_inference_results  \* write_outputs: the argument of the call under study

vars == <<pc, args_dict, environ, gpu_devices, raised, made_output_dir, loader,
          fold_inputs, data_pipeline_config, model_runner, num_fold_inputs,
          calls, fs, now, db_dirs, existing, path_with_db_dir, db_result,
          all_inference_results>>

None == "None"

----------------------------------------------------------------------------
(* Bounds of the model *)

\* fold inputs loaded by one run
MaxInputs == 2
\* seconds the wall clock can advance during one run
MaxTime == 2
\* samples per seed given to write_outputs
MaxSamples == 2
\* ranking scores range over 0..MaxScore
MaxScore == 1
\* directories in a --db_dir list
MaxDbDirs == 2

----------------------------------------------------------------------------
(* Exceptions *)

Exc(type, msg) == [type |-> type, msg |-> msg]

\* no exception: the call returned
NoExc == Exc("None", "")

ExactlyOneError == Exc("ValueError", "Exactly one of --json_path or --input_dir must be specified.")
AtLeastOneError == Exc("ValueError", "At least one of --run_inference or --run_data_pipeline must be set to true.")
ComputeCapabilityError == Exc("ValueError", "AlphaFold 3 requires at least GPU compute capability 6.0")
Cuda7xError == Exc("ValueError", "For devices with GPU compute capability 7.x you must include the --cuda_compute_7x flag.")
NoChainsError == Exc("ValueError", "Fold input has no chains.")
NotFoundInAnyError == Exc("FileNotFoundError", "with ${DB_DIR} not found in any of db_dirs")
DoesNotExistError == Exc("FileNotFoundError", "does not exist")
TemplateKeyError == Exc("KeyError", "identifier without a value")
TemplateValueError == Exc("ValueError", "Invalid placeholder in string")
ParamsError == Exc("FileNotFoundError", "model parameters cannot be loaded")
PipelineError == Exc("RuntimeError", "data pipeline failed")
BucketError == Exc("ValueError", "number of tokens is more than the largest bucket size")

----------------------------------------------------------------------------
(* replace_db_dir (string.Template, os.path.exists) *)

\* Tokens of a template string: literal characters and the four things
\* string.Template's pattern recognises after a "$".
DB_DIR_TOKEN == "${DB_DIR}"
OTHER_TOKEN == "${OTHER}"
ESCAPED_TOKEN == "$$"
INVALID_TOKEN == "$ "

\* The --db_dir values the model draws from.
DbDirValues == {<<"p">>, <<"q">>, <<"p", "/", "q">>}

RECURSIVE SeqsUpTo(_, _)
SeqsUpTo(S, n) ==
  IF n = 0 THEN {<<>>}
  ELSE LET shorter == SeqsUpTo(S, n - 1)
       IN shorter \cup {Append(s, x) : s \in {t \in shorter : Len(t) = n - 1}, x \in S}

DbDirLists == SeqsUpTo(DbDirValues, MaxDbDirs)

\* The database path flags the model draws from: the shape of the defaults
\* (lines 83-128), a path without placeholder, a path naming the placeholder
\* twice, an escaped dollar, and paths with a second or an invalid placeholder.
PathTemplates ==
  { <<DB_DIR_TOKEN, "/", "f">>,
    <<"/", "f">>,
    <<DB_DIR_TOKEN, "/", DB_DIR_TOKEN>>,
    <<ESCAPED_TOKEN, DB_DIR_TOKEN>>,
    <<DB_DIR_TOKEN, "/", OTHER_TOKEN>>,
    <<DB_DIR_TOKEN, INVALID_TOKEN, "f">>,
    <<OTHER_TOKEN, "/", "f">> }

\* string.Template.get_identifiers: the valid named placeholders, invalid ones skipped.
GetIdentifiers(template) ==
  {template[i] : i \in {j \in 1..Len(template) : template[j] \in {DB_DIR_TOKEN, OTHER_TOKEN}}}

\* string.Template.substitute(DB_DIR=db_dir): the pattern's matches are replaced
\* left to right; a named placeholder without a value raises KeyError, an
\* invalid one ValueError, "$$" becomes "$".
RECURSIVE Substitute(_, _)
Substitute(template, db_dir) ==
  IF template = <<>> THEN [exc |-> NoExc, value |-> <<>>]
  ELSE LET h == Head(template)
       IN IF h = OTHER_TOKEN THEN [exc |-> TemplateKeyError, value |-> None]
          ELSE IF h = INVALID_TOKEN THEN [exc |-> TemplateValueError, value |-> None]
          ELSE LET rest == Substitute(Tail(template), db_dir)
                   piece == IF h = DB_DIR_TOKEN THEN db_dir
                            ELSE IF h = ESCAPED_TOKEN THEN <<"$">>
                            ELSE <<h>>
               IN IF rest.exc # NoExc THEN rest
                  ELSE [exc |-> NoExc, value |-> piece \o rest.value]

\* The for loop of lines 388-394, from index i on.
RECURSIVE TryDbDirs(_, _, _, _)
TryDbDirs(template, dirs, i, exists) ==
  IF i > Len(dirs) THEN [exc |-> NotFoundInAnyError, value |-> None]
  ELSE LET path == Substitute(template, dirs[i])
       IN IF path.exc # NoExc THEN path
          ELSE IF path.value \in exists THEN path
          ELSE TryDbDirs(template, dirs, i + 1, exists)

\* A bug the loop could have: the existence test skipped.
ReplaceDbDirNoExistenceTest(template, dirs, exists) ==
  IF DB_DIR_TOKEN \in GetIdentifiers(template)
  THEN IF dirs = <<>> THEN [exc |-> NotFoundInAnyError, value |-> None]
       ELSE Substitute(template, dirs[1])
  ELSE IF template \notin exists THEN [exc |-> DoesNotExistError, value |-> None]
  ELSE [exc |-> NoExc, value |-> template]

ReplaceDbDir(template, dirs, exists) ==
  IF DB_DIR_TOKEN \in GetIdentifiers(template)
  THEN TryDbDirs(template, dirs, 1, exists)
  ELSE IF template \notin exists THEN [exc |-> DoesNotExistError, value |-> None]
  ELSE [exc |-> NoExc, value |-> template]

\* The paths a call on this template can ask the file system about.
CandidatePaths(template) ==
  {template} \cup
  {Substitute(template, d).value : d \in {e \in DbDirValues : Substitute(template, e).exc = NoExc}}


----------------------------------------------------------------------------
(* The file system below the output directory *)

EmptyDir == <<>>

Exists(fsys, dir) == dir \in DOMAIN fsys

Listdir(fsys, dir) == DOMAIN fsys[dir]

\* os.makedirs(dir, exist_ok=True)
Makedirs(fsys, dir) ==
  IF dir \in DOMAIN fsys THEN fsys
  ELSE [d \in DOMAIN fsys \cup {dir} |-> IF d = dir THEN EmptyDir ELSE fsys[d]]

\* open(os.path.join(dir, name), 'wt').write(content), or a directory entry
\* created with what was written into it: an existing entry is overwritten.
WriteEntry(fsys, dir, name, content) ==
  [fsys EXCEPT ![dir] =
     [n \in DOMAIN @ \cup {name} |-> IF n = name THEN content ELSE @[n]]]

Entry(kind, payload) == [kind |-> kind, payload |-> payload]

\* str(n) for n >= 0, as a sequence of digit characters
DigitChar(d) == <<"0", "1", "2", "3", "4", "5", "6", "7", "8", "9">>[d + 1]

RECURSIVE Str(_)
Str(n) == IF n < 10 THEN <<DigitChar(n)>> ELSE Str(n \div 10) \o <<DigitChar(n % 10)>>

----------------------------------------------------------------------------
(* write_fold_input_json and write_outputs *)

\* f'{fold_input.sanitised_name()}_data.json'
DataJsonName(fold_input) == fold_input.name \o <<"_data.json">>

WriteFoldInputJson(fold_input, output_dir, fsys) ==
  WriteEntry(Makedirs(fsys, output_dir), output_dir, DataJsonName(fold_input),
             Entry("json", fold_input))

\* f'seed-{seed}_sample-{sample_idx}'
SampleDirName(seed, sample_idx) ==
  <<"seed-">> \o Str(seed) \o <<"_sample-">> \o Str(sample_idx)

RankingScoresCsv == <<"ranking_scores.csv">>

CsvHeader == <<"seed", "sample", "ranking_score">>

\* the file post_processing.write_output(..., name=job_name) leaves at the top level
TopLevelName(job_name) == job_name \o <<"_model.cif">>

\* The local state of write_outputs: an unset max_ranking_score and
\* max_ranking_result (None in the code) are the empty sequence.
InitialLoopState(fsys) ==
  [fs |-> fsys, ranking_scores |-> <<>>, max_ranking_score |-> <<>>,
   max_ranking_result |-> <<>>]

\* A bug the comparison could have: >= lets a later equal score win.
IsNewMaxNotStrict(ranking_score, max_ranking_score) ==
  max_ranking_score = <<>> \/ ranking_score >= max_ranking_score[1]

IsNewMax(ranking_score, max_ranking_score) ==
  max_ranking_score = <<>> \/ ranking_score > max_ranking_score[1]

\* A bug the loop body could have: the sample directory named by the seed alone.
SampleBodySeedOnlyName(seed, sample_idx, result, output_dir, st) ==
  LET sample_dir == <<"seed-">> \o Str(seed)
      ranking_score == result.ranking_score
      new_max == IsNewMax(ranking_score, st.max_ranking_score)
  IN [fs |-> WriteEntry(st.fs, output_dir, sample_dir, Entry("dir", result)),
      ranking_scores |-> Append(st.ranking_scores, <<seed, sample_idx, ranking_score>>),
      max_ranking_score |-> IF new_max THEN <<ranking_score>> ELSE st.max_ranking_score,
      max_ranking_result |-> IF new_max THEN <<result>> ELSE st.max_ranking_result]

\* The body of the inner loop, lines 357-366.
SampleBody(seed, sample_idx, result, output_dir, st) ==
  LET sample_dir == SampleDirName(seed, sample_idx)
      ranking_score == result.ranking_score
      new_max == IsNewMax(ranking_score, st.max_ranking_score)
  IN [fs |-> WriteEntry(st.fs, output_dir, sample_dir, Entry("dir", result)),
      ranking_scores |-> Append(st.ranking_scores, <<seed, sample_idx, ranking_score>>),
      max_ranking_score |-> IF new_max THEN <<ranking_score>> ELSE st.max_ranking_score,
      max_ranking_result |-> IF new_max THEN <<result>> ELSE st.max_ranking_result]

\* enumerate(results_for_seed.inference_results), from sample_idx on
RECURSIVE SampleLoop(_, _, _, _, _)
SampleLoop(seed, inference_results, sample_idx, output_dir, st) ==
  IF sample_idx >= Len(inference_results) THEN st
  ELSE SampleLoop(seed, inference_results, sample_idx + 1, output_dir,
                  SampleBody(seed, sample_idx, inference_results[sample_idx + 1],
                             output_dir, st))

\* for results_for_seed in all_inference_results, from the k-th on
RECURSIVE SeedLoop(_, _, _, _)
SeedLoop(results, k, output_dir, st) ==
  IF k > Len(results) THEN st
  ELSE SeedLoop(results, k + 1, output_dir,
                SampleLoop(results[k].seed, results[k].inference_results, 0,
                           output_dir, st))

\* Lines 368-381: the top-level copy of the best result and ranking_scores.csv.
WriteTopLevel(st, output_dir, job_name) ==
  IF st.max_ranking_result # <<>>
  THEN WriteEntry(
         WriteEntry(st.fs, output_dir, TopLevelName(job_name),
                    Entry("model", [result |-> st.max_ranking_result[1],
                                    terms_of_use |-> TRUE, name |-> job_name])),
         output_dir, RankingScoresCsv,
         Entry("csv", <<CsvHeader>> \o st.ranking_scores))
  ELSE st.fs

WriteOutputs(results, output_dir, job_name, fsys) ==
  WriteTopLevel(SeedLoop(results, 1, output_dir,
                         InitialLoopState(Makedirs(fsys, output_dir))),
                output_dir, job_name)


----------------------------------------------------------------------------
(* process_fold_input *)

\* datetime.datetime.now().strftime("%Y%m%d_%H%M%S"): one string per second
Strftime(t) == Str(t)

\* A bug the test of line 451 could have: the check missing.
HasNoChainsUnchecked(fold_input) == FALSE

\* not fold_input.chains
HasNoChains(fold_input) == fold_input.chains = <<>>

\* A bug lines 454-462 could have: a non-empty directory reused.
SelectOutputDirReuse(output_dir, fsys, t) == output_dir

\* Lines 454-462: the directory the call writes to.
SelectOutputDir(output_dir, fsys, t) ==
  IF Exists(fsys, output_dir) /\ Listdir(fsys, output_dir) # {}
  THEN output_dir \o <<"_">> \o Strftime(t)
  ELSE output_dir

\* A bug lines 464-468 could have: the parameters not checked before the
\* data pipeline.
CheckModelParamsSkipped(st, params_ok) == st

\* Lines 464-468: model_runner.model_params, a cached property: the parameters
\* are read from model_dir on the first access only, and that read can fail.
CheckModelParams(st, params_ok) ==
  IF st.model_runner = <<>> THEN st
  ELSE LET logged == [st EXCEPT !.events = Append(@, "model_params")]
       IN IF st.model_runner[1].model_params_cached THEN logged
          ELSE IF params_ok
          THEN [logged EXCEPT !.model_runner = <<[model_params_cached |-> TRUE]>>]
          ELSE [logged EXCEPT !.exc = ParamsError]

\* Lines 470-474: pipeline.DataPipeline(config).process(fold_input), which
\* returns the fold input with MSAs and templates filled in, or raises.
RunDataPipeline(st, config, pipeline_ok) ==
  IF config = <<>> THEN st
  ELSE LET logged == [st EXCEPT !.events = Append(@, "data_pipeline")]
       IN IF pipeline_ok
          THEN [logged EXCEPT !.fold_input = [@ EXCEPT !.data = "pipeline"]]
          ELSE [logged EXCEPT !.exc = PipelineError]

\* Line 478
WriteJsonStep(st) ==
  [st EXCEPT !.fs = WriteFoldInputJson(st.fold_input, st.output_dir, st.fs),
             !.events = Append(@, "write_fold_input_json")]

\* Lines 479-501: predict_structure, which raises (inference = <<>>) or returns
\* one ResultsForSeed per seed (inference = <<results>>), then write_outputs.
InferenceStep(st, inference) ==
  IF st.model_runner = <<>> THEN st
  ELSE LET logged == [st EXCEPT !.events = Append(@, "predict_structure")]
       IN IF inference = <<>> THEN [logged EXCEPT !.exc = BucketError]
          ELSE [logged EXCEPT
                  !.fs = WriteOutputs(inference[1], st.output_dir,
                                      st.fold_input.name, st.fs),
                  !.events = Append(@, "write_outputs")]

\* A bug the order of lines 470-501 could have: the JSON written after inference.
StepsAfterParamsJsonLast(st, config, oc) ==
  LET piped == RunDataPipeline(st, config, oc.pipeline_ok)
  IN IF piped.exc # NoExc THEN piped
     ELSE LET inferred == InferenceStep(piped, oc.inference)
          IN IF inferred.exc # NoExc THEN inferred ELSE WriteJsonStep(inferred)

\* Lines 470-501: data pipeline, JSON, inference.
StepsAfterParams(st, config, oc) ==
  LET piped == RunDataPipeline(st, config, oc.pipeline_ok)
  IN IF piped.exc # NoExc THEN piped
     ELSE InferenceStep(WriteJsonStep(piped), oc.inference)

\* One call of process_fold_input at time t, the collaborators' outcomes given
\* by oc.  The result holds the exception raised (NoExc: the call returned),
\* the file system and the runner as the call leaves them, the directory it
\* wrote to, the fold input as processed and the steps taken, in order.
ProcessFoldInput(fold_input, config, runner, output_dir, fsys, t, oc) ==
  LET entered == [exc |-> NoExc, fs |-> fsys, model_runner |-> runner,
                  events |-> <<>>, requested_dir |-> output_dir,
                  output_dir |-> output_dir, input |-> fold_input,
                  fold_input |-> fold_input, time |-> t]
  IN IF HasNoChains(fold_input) THEN [entered EXCEPT !.exc = NoChainsError]
     ELSE LET selected == [entered EXCEPT
                             !.output_dir = SelectOutputDir(output_dir, fsys, t)]
              checked == CheckModelParams(selected, oc.params_ok)
          IN IF checked.exc # NoExc THEN checked
             ELSE StepsAfterParams(checked, config, oc)


----------------------------------------------------------------------------
(* The script entry point and main *)

TritonGemmFlag == "--xla_gpu_enable_triton_gemm=false"
RequiredFlag == "--xla_disable_hlo_passes=custom-kernel-fusion-rewriter"

\* required_flag in xla_flags, an XLA_FLAGS value being a sequence of flags
FlagIn(flag, xla_flags) == \E i \in 1..Len(xla_flags) : xla_flags[i] = flag

\* Lines 647-660: XLA_FLAGS as the script leaves it before it calls main.
ScriptXlaFlags(args) ==
  IF args.cuda_compute_7x THEN <<RequiredFlag>> ELSE <<TritonGemmFlag>>

\* not xla_flags or required_flag not in xla_flags, for an XLA_FLAGS that is
\* unset (<<>>) or set to a sequence of flags (<<flags>>)
LacksRequiredFlag(xla_flags) ==
  xla_flags = <<>> \/ xla_flags[1] = <<>> \/ ~FlagIn(RequiredFlag, xla_flags[1])

\* Line 513: json_path is None == input_dir is None, a chained comparison:
\* (json_path is None) and (None == input_dir) and (input_dir is None).
JsonPathIsNoneEqInputDirIsNone(args) ==
  /\ args.json_path = None
  /\ None = args.input_dir
  /\ args.input_dir = None

\* A bug line 518 could have: "or" for "and".
NoStageSelectedOr(args) == ~args.run_inference \/ ~args.run_data_pipeline

\* Line 518
NoStageSelected(args) == ~args.run_inference /\ ~args.run_data_pipeline

\* float(gpu_devices[0].compute_capability), in tenths
ComputeCapability(devices) == devices[1]

\* A bug lines 555-568 could have: the 7.x range closed at 8.0 and open at 7.0.
AcceleratorErrorShiftedRange(devices, xla_flags) ==
  IF devices = <<>> THEN NoExc
  ELSE LET compute_capability == ComputeCapability(devices)
       IN IF compute_capability < 60 THEN ComputeCapabilityError
          ELSE IF 70 < compute_capability /\ compute_capability <= 80
          THEN IF LacksRequiredFlag(xla_flags)
               THEN Cuda7xError
               ELSE NoExc
          ELSE NoExc

\* Lines 553-568: what the accelerator check raises for these devices.
AcceleratorError(devices, xla_flags) ==
  IF devices = <<>> THEN NoExc
  ELSE LET compute_capability == ComputeCapability(devices)
       IN IF compute_capability < 60 THEN ComputeCapabilityError
          ELSE IF 70 <= compute_capability /\ compute_capability < 80
          THEN IF LacksRequiredFlag(xla_flags)
               THEN Cuda7xError
               ELSE NoExc
          ELSE NoExc

\* The default values of the nine database path flags, lines 83-128.
DatabasePathFlags ==
  << <<DB_DIR_TOKEN, "/", "bfd-first_non_consensus_sequences.fasta">>,
     <<DB_DIR_TOKEN, "/", "mgy_clusters_2022_05.fa">>,
     <<DB_DIR_TOKEN, "/", "uniprot_all_2021_04.fa">>,
     <<DB_DIR_TOKEN, "/", "uniref90_2022_05.fa">>,
     <<DB_DIR_TOKEN, "/", "nt_rna_2023_02_23_clust_seq_id_90_cov_80_rep_seq.fasta">>,
     <<DB_DIR_TOKEN, "/", "rfam_14_9_clust_seq_id_90_cov_80_rep_seq.fasta">>,
     <<DB_DIR_TOKEN, "/", "rnacentral_active_seq_id_90_cov_80_linclust.fasta">>,
     <<DB_DIR_TOKEN, "/", "mmcif_files">>,
     <<DB_DIR_TOKEN, "/", "pdb_seqres_2022_09_28.fasta">> >>

\* Lines 586-606: the paths expanded in argument order; the first that is not
\* found raises.
RECURSIVE ExpandPaths(_, _, _, _)
ExpandPaths(flags, i, dirs, exists) ==
  IF i > Len(flags) THEN [exc |-> NoExc, value |-> <<>>]
  ELSE LET path == ReplaceDbDir(flags[i], dirs, exists)
       IN IF path.exc # NoExc THEN path
          ELSE LET rest == ExpandPaths(flags, i + 1, dirs, exists)
               IN IF rest.exc # NoExc THEN rest
                  ELSE [exc |-> NoExc, value |-> <<path.value>> \o rest.value]

\* every database of the defaults present below db_dir
DatabasesIn(db_dir) ==
  {Substitute(DatabasePathFlags[i], db_dir).value : i \in 1..Len(DatabasePathFlags)}

----------------------------------------------------------------------------
(* The inputs the model draws from *)

\* sanitised names of fold inputs: "a", and "a_1", which is also what "a"
\* becomes with the timestamp of second 1 appended
FoldInputNames == {<<"a">>, <<"a", "_", "1">>}

FoldInput(name, chains, rng_seeds) ==
  [name |-> name, chains |-> chains, rng_seeds |-> rng_seeds, data |-> "input"]

\* two inputs of the same name and different content, an input of another
\* name, and an input without chains
FoldInputValues ==
  { FoldInput(<<"a">>, <<"A">>, <<1>>),
    FoldInput(<<"a">>, <<"A">>, <<2>>),
    FoldInput(<<"a", "_", "1">>, <<"A">>, <<1>>),
    FoldInput(<<"a">>, <<>>, <<1>>) }

FoldInputLists == SeqsUpTo(FoldInputValues, MaxInputs)

\* One InferenceResult per score, in sample order; the structure of a result
\* is told apart by its place (k-th seed given, i-th sample) in the input.
Samples(k, scores) ==
  [i \in 1..Len(scores) |-> [ranking_score |-> scores[i], structure |-> <<k, i - 1>>]]

ResultsForSeed(k, seed, scores) ==
  [seed |-> seed, inference_results |-> Samples(k, scores)]

ScoreLists == SeqsUpTo(0..MaxScore, MaxSamples)

\* the lists of seeds of the calls of write_outputs under study: none, one,
\* two, and one seed given twice
SeedLists == {<<>>, <<1>>, <<2, 1>>, <<1, 11>>, <<1, 1>>}

\* the arguments of write_outputs: one ResultsForSeed per seed
InferenceResultsFor(seeds) ==
  {[k \in 1..Len(seeds) |-> ResultsForSeed(k, seeds[k], scores[k])] :
     scores \in [1..Len(seeds) -> ScoreLists]}

AllInferenceResults == UNION {InferenceResultsFor(seeds) : seeds \in SeedLists}

\* what predict_structure does for process_fold_input in a run of main: it
\* raises, or returns no sample or two samples of equal score for the seed
PredictOutcomes(fold_input) ==
  {<<>>} \cup
  {<< <<ResultsForSeed(1, fold_input.rng_seeds[1], scores)>> >> :
     scores \in {<<>>, <<1, 1>>}}

OldEntry == [n \in {<<"old">>} |-> Entry("old", <<>>)]

\* what lies below the output directory when the run starts
InitialTrees ==
  { <<>>,
    [d \in {<<"a">>} |-> EmptyDir],
    [d \in {<<"a">>} |-> OldEntry] }

ArgsDicts ==
  [json_path : {None, "fold_input.json"},
   input_dir : {None, "inputs"},
   run_inference : BOOLEAN,
   run_data_pipeline : BOOLEAN,
   cuda_compute_7x : BOOLEAN]

\* compute capabilities, in tenths, of the local GPUs: none, 5.2, 6.0, 7.0,
\* and an 8.0 followed by a 5.2
GpuDevicesValues == {<<>>, <<52>>, <<60>>, <<70>>, <<80, 52>>}

\* jax.local_devices has not been asked yet
NotQueried == [queried |-> FALSE, devices |-> <<>>]

Queried(devices) == [queried |-> TRUE, devices |-> devices]

Outcomes(fold_input) ==
  [params_ok : BOOLEAN, pipeline_ok : BOOLEAN, inference : PredictOutcomes(fold_input)]


----------------------------------------------------------------------------
(* The run of the script *)

\* what main keeps of one process_fold_input call
CallRecord(result, fsys) ==
  [input |-> result.input,
   fold_input |-> result.fold_input,
   requested_dir |-> result.requested_dir,
   output_dir |-> result.output_dir,
   time |-> result.time,
   events |-> result.events,
   exc |-> result.exc,
   found_nonempty |-> Exists(fsys, result.output_dir)
                      /\ Listdir(fsys, result.output_dir) # {}]

StudyIdle ==
  /\ path_with_db_dir = <<>>
  /\ db_result = <<>>
  /\ all_inference_results = <<>>

\* The script is started (pc = "script"), or main is called by an importer
\* with XLA_FLAGS as the importer's environment has it (pc = "main").
Init ==
  /\ args_dict \in ArgsDicts
  /\ \/ pc = "script" /\ environ = <<>>
     \/ /\ pc = "main"
        /\ environ \in {<<>>, << <<TritonGemmFlag, RequiredFlag>> >>}
        /\ ~args_dict.cuda_compute_7x
  /\ gpu_devices = NotQueried
  /\ raised = NoExc
  /\ made_output_dir = FALSE
  /\ loader = None
  /\ fold_inputs = <<>>
  /\ data_pipeline_config = <<>>
  /\ model_runner = <<>>
  /\ num_fold_inputs = 0
  /\ calls = <<>>
  /\ fs \in InitialTrees
  /\ now = 1
  /\ db_dirs = << <<"q">>, <<"p">> >>
  /\ existing \in {DatabasesIn(<<"p">>),
                   DatabasesIn(<<"p">>) \ {Substitute(DatabasePathFlags[9], <<"p">>).value}}
  /\ args_dict.run_data_pipeline \/ existing = DatabasesIn(<<"p">>)
  /\ StudyIdle

\* Lines 647-662: the script sets XLA_FLAGS and calls main.
Script ==
  /\ pc = "script"
  /\ environ' = <<ScriptXlaFlags(args_dict)>>
  /\ pc' = "main"
  /\ UNCHANGED <<args_dict, gpu_devices, raised, made_output_dir, loader,
                 fold_inputs, data_pipeline_config, model_runner,
                 num_fold_inputs, calls, fs, now, db_dirs, existing,
                 path_with_db_dir, db_result, all_inference_results>>

Raise(exc) == raised' = exc /\ pc' = "raised"

\* Lines 513-522: the two checks of the arguments.
ValidateArgs ==
  /\ pc = "main"
  /\ IF JsonPathIsNoneEqInputDirIsNone(args_dict) THEN Raise(ExactlyOneError)
     ELSE IF NoStageSelected(args_dict) THEN Raise(AtLeastOneError)
     ELSE raised' = raised /\ pc' = "makedirs"
  /\ UNCHANGED <<args_dict, environ, gpu_devices, made_output_dir, loader,
                 fold_inputs, data_pipeline_config, model_runner,
                 num_fold_inputs, calls, fs, now, db_dirs, existing,
                 path_with_db_dir, db_result, all_inference_results>>

\* Lines 524-529: os.makedirs(output_dir, exist_ok=True)
MakeOutputDir ==
  /\ pc = "makedirs"
  /\ made_output_dir' = TRUE
  /\ pc' = "load"
  /\ UNCHANGED <<args_dict, environ, gpu_devices, raised, loader,
                 fold_inputs, data_pipeline_config, model_runner,
                 num_fold_inputs, calls, fs, now, db_dirs, existing,
                 path_with_db_dir, db_result, all_inference_results>>

\* Lines 531-548: the fold inputs are loaded, input_dir taking precedence.
LoadFoldInputs ==
  /\ pc = "load"
  /\ IF args_dict.input_dir # None
     THEN /\ loader' = "dir"
          /\ fold_inputs' \in FoldInputLists
          /\ raised' = raised /\ pc' = "accelerator"
     ELSE IF args_dict.json_path # None
     THEN /\ loader' = "path"
          /\ fold_inputs' \in FoldInputLists
          /\ raised' = raised /\ pc' = "accelerator"
     ELSE /\ Raise(Exc("AssertionError", ExactlyOneError.msg))
          /\ UNCHANGED <<loader, fold_inputs>>
  /\ UNCHANGED <<args_dict, environ, gpu_devices, made_output_dir,
                 data_pipeline_config, model_runner,
                 num_fold_inputs, calls, fs, now, db_dirs, existing,
                 path_with_db_dir, db_result, all_inference_results>>

\* Lines 550-568: the accelerator check, made only when inference is to run;
\* it is the first to ask jax.local_devices(backend='gpu').
AcceleratorCheck ==
  /\ pc = "accelerator"
  /\ IF args_dict.run_inference
     THEN \E devices \in GpuDevicesValues :
            /\ gpu_devices' = Queried(devices)
            /\ IF AcceleratorError(devices, environ) # NoExc
               THEN Raise(AcceleratorError(devices, environ))
               ELSE raised' = raised /\ pc' = "config"
     ELSE UNCHANGED <<gpu_devices, raised>> /\ pc' = "config"
  /\ UNCHANGED <<args_dict, environ, made_output_dir, loader,
                 fold_inputs, data_pipeline_config, model_runner,
                 num_fold_inputs, calls, fs, now, db_dirs, existing,
                 path_with_db_dir, db_result, all_inference_results>>

\* Lines 583-609: the data pipeline's configuration, its database paths expanded.
BuildDataPipelineConfig ==
  /\ pc = "config"
  /\ IF args_dict.run_data_pipeline
     THEN LET paths == ExpandPaths(DatabasePathFlags, 1, db_dirs, existing)
          IN IF paths.exc # NoExc
             THEN Raise(paths.exc) /\ UNCHANGED data_pipeline_config
             ELSE /\ data_pipeline_config' = <<paths.value>>
                  /\ raised' = raised /\ pc' = "runner"
     ELSE /\ data_pipeline_config' = <<>>
          /\ raised' = raised /\ pc' = "runner"
  /\ UNCHANGED <<args_dict, environ, gpu_devices, made_output_dir, loader,
                 fold_inputs, model_runner,
                 num_fold_inputs, calls, fs, now, db_dirs, existing,
                 path_with_db_dir, db_result, all_inference_results>>

\* Lines 611-629: the model runner, on the first local GPU (devices[0]).
BuildModelRunner ==
  /\ pc = "runner"
  /\ IF args_dict.run_inference
     THEN IF gpu_devices.devices = <<>>
          THEN Raise(Exc("IndexError", "list index out of range"))
               /\ UNCHANGED model_runner
          ELSE /\ model_runner' = <<[model_params_cached |-> FALSE]>>
               /\ raised' = raised /\ pc' = "loop"
     ELSE /\ model_runner' = <<>>
          /\ raised' = raised /\ pc' = "loop"
  /\ UNCHANGED <<args_dict, environ, gpu_devices, made_output_dir, loader,
                 fold_inputs, data_pipeline_config,
                 num_fold_inputs, calls, fs, now, db_dirs, existing,
                 path_with_db_dir, db_result, all_inference_results>>

\* Lines 635-642: an exception of the call leaves main; otherwise the counter
\* is advanced.
AfterCall(result) ==
  IF result.exc # NoExc
  THEN Raise(result.exc) /\ UNCHANGED num_fold_inputs
  ELSE /\ raised' = raised
       /\ pc' = "loop"
       /\ num_fold_inputs' = num_fold_inputs + 1

\* Lines 633-642: one iteration of the loop over fold_inputs.
ProcessNextFoldInput ==
  /\ pc = "loop"
  /\ num_fold_inputs < Len(fold_inputs)
  /\ LET fold_input == fold_inputs[num_fold_inputs + 1]
     IN \E oc \in Outcomes(fold_input) :
          LET result == ProcessFoldInput(fold_input, data_pipeline_config,
                                         model_runner, fold_input.name, fs, now, oc)
          IN /\ fs' = result.fs
             /\ model_runner' = result.model_runner
             /\ calls' = Append(calls, CallRecord(result, fs))
             /\ AfterCall(result)
  /\ UNCHANGED <<args_dict, environ, gpu_devices, made_output_dir, loader,
                 fold_inputs, data_pipeline_config, now, db_dirs, existing,
                 path_with_db_dir, db_result, all_inference_results>>

\* Line 644: the loop is over.
Finish ==
  /\ pc = "loop"
  /\ num_fold_inputs = Len(fold_inputs)
  /\ pc' = "done"
  /\ UNCHANGED <<args_dict, environ, gpu_devices, raised, made_output_dir, loader,
                 fold_inputs, data_pipeline_config, model_runner,
                 num_fold_inputs, calls, fs, now, db_dirs, existing,
                 path_with_db_dir, db_result, all_inference_results>>

\* A second of wall-clock time passes between two calls.
Tick ==
  /\ pc = "loop"
  /\ now < MaxTime
  /\ now' = now + 1
  /\ UNCHANGED <<pc, args_dict, environ, gpu_devices, raised, made_output_dir,
                 loader, fold_inputs, data_pipeline_config, model_runner,
                 num_fold_inputs, calls, fs, db_dirs, existing,
                 path_with_db_dir, db_result, all_inference_results>>

Next ==
  \/ Script
  \/ ValidateArgs
  \/ MakeOutputDir
  \/ LoadFoldInputs
  \/ AcceleratorCheck
  \/ BuildDataPipelineConfig
  \/ BuildModelRunner
  \/ ProcessNextFoldInput
  \/ Finish
  \/ Tick

Spec == Init /\ [][Next]_vars


----------------------------------------------------------------------------
(* replace_db_dir and write_outputs on their own: one call each, on inputs  *)
(* drawn from the sets above                                                *)

MainIdle ==
  /\ args_dict = [json_path |-> None, input_dir |-> None, run_inference |-> FALSE,
                  run_data_pipeline |-> FALSE, cuda_compute_7x |-> FALSE]
  /\ environ = <<>>
  /\ gpu_devices = NotQueried
  /\ raised = NoExc
  /\ made_output_dir = FALSE
  /\ loader = None
  /\ fold_inputs = <<>>
  /\ data_pipeline_config = <<>>
  /\ model_runner = <<>>
  /\ num_fold_inputs = 0
  /\ calls = <<>>
  /\ now = 1

DbInit ==
  /\ pc = "db_call"
  /\ path_with_db_dir \in PathTemplates
  /\ db_dirs \in DbDirLists
  /\ existing \in SUBSET CandidatePaths(path_with_db_dir)
  /\ db_result = <<>>
  /\ all_inference_results = <<>>
  /\ fs = <<>>
  /\ MainIdle

\* replace_db_dir(path_with_db_dir, db_dirs)
CallReplaceDbDir ==
  /\ pc = "db_call"
  /\ db_result' = <<ReplaceDbDir(path_with_db_dir, db_dirs, existing)>>
  /\ pc' = "db_done"
  /\ UNCHANGED <<args_dict, environ, gpu_devices, raised, made_output_dir,
                 loader, fold_inputs, data_pipeline_config, model_runner,
                 num_fold_inputs, calls, fs, now, db_dirs, existing,
                 path_with_db_dir, all_inference_results>>

SpecDb == DbInit /\ [][CallReplaceDbDir]_vars

\* the output directory and job name of the write_outputs call under study
StudyDir == <<"a">>

\* what the output directory holds when write_outputs is called: it is
\* absent, empty, or holds the JSON written by write_fold_input_json
OutInitialTrees ==
  { <<>>,
    [d \in {StudyDir} |-> EmptyDir],
    WriteFoldInputJson(FoldInput(StudyDir, <<"A">>, <<1>>), StudyDir, <<>>) }

OutInit ==
  /\ pc = "out_call"
  /\ all_inference_results \in AllInferenceResults
  /\ fs \in OutInitialTrees
  /\ path_with_db_dir = <<>>
  /\ db_result = <<>>
  /\ db_dirs = <<>>
  /\ existing = {}
  /\ MainIdle

\* write_outputs(all_inference_results, output_dir, job_name)
CallWriteOutputs ==
  /\ pc = "out_call"
  /\ fs' = WriteOutputs(all_inference_results, StudyDir, StudyDir, fs)
  /\ pc' = "out_done"
  /\ UNCHANGED <<args_dict, environ, gpu_devices, raised, made_output_dir,
                 loader, fold_inputs, data_pipeline_config, model_runner,
                 num_fold_inputs, calls, now, db_dirs, existing,
                 path_with_db_dir, db_result, all_inference_results>>

SpecOut == OutInit /\ [][CallWriteOutputs]_vars


----------------------------------------------------------------------------
(* Properties *)

Last(s) == s[Len(s)]

\* main has gone past the two checks of its arguments, or was ended by one
PastValidation == pc \notin {"script", "main"}

BothOrNeither == (args_dict.json_path = None) = (args_dict.input_dir = None)

\* C1: main requires exactly one of json_path and input_dir: if both are None
\* or both are given, main raises ValueError ("Exactly one of ...") before the
\* output directory is created and before any fold input is loaded; if
\* exactly one is given, that error is not raised.
C1_ExactlyOneOfJsonPathAndInputDir ==
  /\ (BothOrNeither /\ PastValidation) =>
       /\ pc = "raised"
       /\ raised.type = "ValueError"
       /\ ~made_output_dir
       /\ loader = None
  /\ ~BothOrNeither => raised # ExactlyOneError

\* C2, as amended: on a path whose placeholders are all DB_DIR (no other
\* identifier, no invalid "$"), replace_db_dir returns the substitution for
\* the first directory of db_dirs, in the given order, whose substituted path
\* exists, and raises FileNotFoundError exactly when no directory yields an
\* existing path (db_dirs empty included).  On a path that also holds another
\* or an invalid placeholder it raises FileNotFoundError when db_dirs is empty
\* and otherwise the KeyError or ValueError of the substitution.
WellFormedDbDirPath(template) ==
  /\ \E i \in 1..Len(template) : template[i] = DB_DIR_TOKEN
  /\ \A i \in 1..Len(template) : template[i] \notin {OTHER_TOKEN, INVALID_TOKEN}

\* the directories of dirs, by index, whose substituted path exists
Hits(template, dirs, exists) ==
  {i \in 1..Len(dirs) :
     /\ Substitute(template, dirs[i]).exc = NoExc
     /\ Substitute(template, dirs[i]).value \in exists}

FirstExistingWins(template, dirs, exists, result) ==
  LET hits == Hits(template, dirs, exists)
  IN /\ (result.exc.type = "FileNotFoundError") = (hits = {})
     /\ hits # {} =>
          \E i \in hits :
            /\ \A j \in hits : i <= j
            /\ result.exc = NoExc
            /\ result.value = Substitute(template, dirs[i]).value

C2_FirstExistingDirWinsWhenWellFormed ==
  pc = "db_done" =>
    LET result == db_result[1]
        hasDbDir == \E i \in 1..Len(path_with_db_dir) : path_with_db_dir[i] = DB_DIR_TOKEN
    IN /\ WellFormedDbDirPath(path_with_db_dir) =>
            FirstExistingWins(path_with_db_dir, db_dirs, existing, result)
       /\ (hasDbDir /\ ~WellFormedDbDirPath(path_with_db_dir)) =>
            IF db_dirs = <<>> THEN result.exc.type = "FileNotFoundError"
            ELSE result.exc.type \in {"KeyError", "ValueError"}

\* C2 as stated: on every path that holds the DB_DIR placeholder.
C2_FirstExistingDirWins ==
  (pc = "db_done" /\ \E i \in 1..Len(path_with_db_dir) : path_with_db_dir[i] = DB_DIR_TOKEN) =>
    FirstExistingWins(path_with_db_dir, db_dirs, existing, db_result[1])

\* the second of two directories is chosen because the path is missing from
\* the first, on a path that names the placeholder twice
C2_Witness ==
  /\ pc = "db_done"
  /\ path_with_db_dir = <<DB_DIR_TOKEN, "/", DB_DIR_TOKEN>>
  /\ db_dirs = << <<"p">>, <<"q">> >>
  /\ existing = {<<"q", "/", "q">>}
  /\ db_result[1].exc = NoExc
  /\ db_result[1].value = <<"q", "/", "q">>

\* C3: if run_inference and run_data_pipeline are both false, main raises
\* ValueError before it creates the output directory, loads any fold input or
\* processes any; if one of them is true that error is not raised.
C3_AtLeastOneStage ==
  /\ (~args_dict.run_inference /\ ~args_dict.run_data_pipeline /\ PastValidation) =>
       /\ pc = "raised"
       /\ raised.type = "ValueError"
       /\ ~made_output_dir
       /\ loader = None
       /\ calls = <<>>
       /\ fs \in InitialTrees
  /\ (args_dict.run_inference \/ args_dict.run_data_pipeline) =>
       raised # AtLeastOneError

\* the check of line 518 itself has raised
C3_Witness ==
  /\ ~args_dict.run_inference
  /\ ~args_dict.run_data_pipeline
  /\ args_dict.json_path # None
  /\ raised = AtLeastOneError
  /\ ~made_output_dir

\* C4: process_fold_input on a fold input without chains raises ValueError and
\* does nothing else: no parameters loaded, no data pipeline run, no directory
\* created and no file written.
C4_NoChainsRaisesWithoutEffect ==
  [][(calls' # calls /\ Last(calls').input.chains = <<>>) =>
       /\ Last(calls').exc = NoChainsError
       /\ Last(calls').events = <<>>
       /\ fs' = fs
       /\ model_runner' = model_runner
       /\ raised' = NoChainsError]_vars

\* a call on a chainless input, made with a runner and a pipeline configured
C4_Witness ==
  /\ calls # <<>>
  /\ Last(calls).input.chains = <<>>
  /\ Last(calls).exc = NoChainsError
  /\ model_runner # <<>>
  /\ data_pipeline_config # <<>>
  /\ Len(calls) = 2


\* C5: when the directory given to process_fold_input exists and is not
\* empty, everything the call writes goes under '<output_dir>_<timestamp>' and
\* the given directory is left as it was; when it is absent or empty,
\* everything goes under the given directory itself.
C5_WritesUnderSelectedDirOnly ==
  [][calls' # calls =>
       LET call == Last(calls')
           given == call.requested_dir
           nonempty == Exists(fs, given) /\ Listdir(fs, given) # {}
           target == IF nonempty THEN given \o <<"_">> \o Strftime(now) ELSE given
       IN /\ \A d \in (DOMAIN fs \cup DOMAIN fs') \ {target} :
               /\ d \in DOMAIN fs
               /\ d \in DOMAIN fs'
               /\ fs'[d] = fs[d]
          /\ nonempty => (target # given /\ fs'[given] = fs[given])
          /\ call.exc # NoChainsError => call.output_dir = target]_vars

\* a call with inference on a non-empty directory: its JSON, its sample
\* directories and the ranking file are in the timestamped directory
C5_Witness ==
  /\ calls # <<>>
  /\ Last(calls).requested_dir = <<"a">>
  /\ Last(calls).output_dir = <<"a", "_", "2">>
  /\ Last(calls).exc = NoExc
  /\ fs[<<"a">>] = OldEntry
  /\ {DataJsonName(Last(calls).input), SampleDirName(1, 0), SampleDirName(1, 1),
      RankingScoresCsv} \subseteq DOMAIN fs[<<"a", "_", "2">>]

\* the (k, i) of the results given to write_outputs: k-th seed, sample index i
Positions(results) ==
  UNION {{<<k, i>> : i \in 0..(Len(results[k].inference_results) - 1)} :
           k \in 1..Len(results)}

\* the number of samples of the seeds before the k-th
RECURSIVE SamplesBefore(_, _)
SamplesBefore(results, k) ==
  IF k <= 1 THEN 0
  ELSE SamplesBefore(results, k - 1) + Len(results[k - 1].inference_results)

SampleDirsOf(dir) == {n \in DOMAIN dir : dir[n].kind = "dir"}

DistinctSeeds(results) ==
  \A k, m \in 1..Len(results) : results[k].seed = results[m].seed => k = m

\* ranking_scores.csv: the header, then the row of the result at (k, i) at
\* the place of (k, i) in seed order, then sample order
CsvRowsInOrder(results, rows) ==
  /\ Len(rows) = 1 + SamplesBefore(results, Len(results) + 1)
  /\ rows[1] = CsvHeader
  /\ \A p \in Positions(results) :
       rows[1 + SamplesBefore(results, p[1]) + p[2] + 1] =
         <<results[p[1]].seed, p[2],
           results[p[1]].inference_results[p[2] + 1].ranking_score>>

SampleDirsNamed(results, dir) ==
  SampleDirsOf(dir) =
    {SampleDirName(results[p[1]].seed, p[2]) : p \in Positions(results)}

Score(results, p) == results[p[1]].inference_results[p[2] + 1].ranking_score

\* (k, i) comes before (m, j) in seed order, then sample order
Before(p, q) == p[1] < q[1] \/ (p[1] = q[1] /\ p[2] < q[2])

\* C7: the result copied to the top level (with the terms of use and the job
\* name) has a ranking score at least that of every sample of every seed and
\* is the first of those with the maximal score in (seed, sample) order; the
\* top-level copy and ranking_scores.csv are written iff there is a sample.
C7_TopLevelIsFirstBestRanked ==
  pc = "out_done" =>
    LET results == all_inference_results
        dir == fs[StudyDir]
        some == Positions(results) # {}
    IN /\ (TopLevelName(StudyDir) \in DOMAIN dir) = some
       /\ (RankingScoresCsv \in DOMAIN dir) = some
       /\ some =>
            LET top == dir[TopLevelName(StudyDir)].payload
                best == top.result.structure
            IN /\ best \in Positions(results)
               /\ top.result = results[best[1]].inference_results[best[2] + 1]
               /\ top.terms_of_use
               /\ top.name = StudyDir
               /\ \A p \in Positions(results) :
                    /\ Score(results, p) <= top.result.ranking_score
                    /\ Before(p, best) => Score(results, p) < top.result.ranking_score

\* the best score is reached twice, after a lower one: the first of the two
\* is the one copied
C7_Witness ==
  /\ pc = "out_done"
  /\ Len(all_inference_results) = 2
  /\ Positions(all_inference_results) = {<<1, 0>>, <<1, 1>>, <<2, 0>>}
  /\ Score(all_inference_results, <<1, 0>>) = 0
  /\ Score(all_inference_results, <<1, 1>>) = 1
  /\ Score(all_inference_results, <<2, 0>>) = 1
  /\ fs[StudyDir][TopLevelName(StudyDir)].payload.result.structure = <<1, 1>>


\* the places of an event in the steps of a call
Places(call, event) == {i \in 1..Len(call.events) : call.events[i] = event}

\* the fold input as the call's data.json must hold it: the pipeline's output
\* when a configuration is given, the input itself when it is None
ExpectedJson(call, config) ==
  IF config = <<>> THEN call.input ELSE [call.input EXCEPT !.data = "pipeline"]

\* the data.json of the call: written once, after the data pipeline, before
\* inference, with the content expected
JsonWrittenOnce(call, config, fsys) ==
  /\ Cardinality(Places(call, "write_fold_input_json")) = 1
  /\ \A i \in Places(call, "write_fold_input_json") :
       /\ \A j \in Places(call, "data_pipeline") : j < i
       /\ \A j \in Places(call, "predict_structure") \cup Places(call, "write_outputs") : i < j
  /\ (config # <<>>) = (Places(call, "data_pipeline") # {})
  /\ call.output_dir \in DOMAIN fsys
  /\ DataJsonName(call.input) \in DOMAIN fsys[call.output_dir]
  /\ fsys[call.output_dir][DataJsonName(call.input)] = Entry("json", ExpectedJson(call, config))

\* C8 as stated: every call that gets past validation writes its data.json
\* exactly once, after the data pipeline and before any inference, with the
\* pipeline's output (configuration given) or the unchanged input (None).
C8_JsonWrittenOncePastValidation ==
  [][(calls' # calls /\ Last(calls').exc # NoChainsError) =>
       JsonWrittenOnce(Last(calls'), data_pipeline_config, fs')]_vars

\* C8, as amended: every call that gets past validation and in which neither
\* the check of the model parameters nor the data pipeline raises writes its
\* data.json exactly once, whether or not inference runs, after the data
\* pipeline and before any inference, with the pipeline's output or the
\* unchanged input; a call ended by one of the two writes no data.json.
C8_JsonWrittenOnceUnlessRaisedBefore ==
  [][calls' # calls =>
       LET call == Last(calls')
       IN IF call.exc \in {NoChainsError, ParamsError, PipelineError}
          THEN Places(call, "write_fold_input_json") = {} /\ fs' = fs
          ELSE JsonWrittenOnce(call, data_pipeline_config, fs')]_vars

\* a call that ran everything, the JSON between pipeline and inference
C8_Witness ==
  /\ calls # <<>>
  /\ Last(calls).events = <<"model_params", "data_pipeline", "write_fold_input_json",
                            "predict_structure", "write_outputs">>
  /\ Last(calls).exc = NoExc
  /\ fs[Last(calls).output_dir][DataJsonName(Last(calls).input)].payload.data = "pipeline"

HasRequiredFlag(xla_flags) ==
  xla_flags # <<>> /\ \E i \in 1..Len(xla_flags[1]) : xla_flags[1][i] = RequiredFlag

\* the run was ended by a ValueError before any fold input was processed
EndedByValueErrorBeforeProcessing ==
  /\ pc = "raised"
  /\ raised.type = "ValueError"
  /\ calls = <<>>
  /\ fs \in InitialTrees

\* C9: with run_inference true and a local GPU, main raises ValueError when
\* the first GPU's compute capability is below 6.0, and when it is in
\* [7.0, 8.0) and XLA_FLAGS lacks the required flag, in both cases before any
\* fold input is processed; with run_inference false the check is not made
\* and never raises.
C9_AcceleratorCheck ==
  /\ (args_dict.run_inference /\ pc \in {"config", "runner", "loop", "done"}) =>
       gpu_devices.queried
  /\ (args_dict.run_inference /\ gpu_devices.queried /\ gpu_devices.devices # <<>>) =>
       LET first == gpu_devices.devices[1]
       IN /\ first < 60 => EndedByValueErrorBeforeProcessing
          /\ (70 <= first /\ first < 80 /\ ~HasRequiredFlag(environ)) =>
               EndedByValueErrorBeforeProcessing
  /\ ~args_dict.run_inference =>
       /\ gpu_devices = NotQueried
       /\ raised \notin {ComputeCapabilityError, Cuda7xError}

\* the script, started without --cuda_compute_7x on a 7.0 GPU, is ended by
\* the check after the fold inputs were loaded
C9_Witness ==
  /\ raised = Cuda7xError
  /\ environ = << <<TritonGemmFlag>> >>
  /\ gpu_devices = Queried(<<70>>)
  /\ ~args_dict.cuda_compute_7x
  /\ Len(fold_inputs) = 2
  /\ calls = <<>>

\* C10: main processes the fold inputs one at a time in their order, each at
\* most once and never again; when the processing of one raises, no later one
\* is started and the run ends, and what was written before remains.
C10_InOrderAbortKeepsOutputs ==
  [][/\ pc \notin {"raised", "done"}
     /\ calls' # calls =>
       /\ Len(calls') = Len(calls) + 1
       /\ Len(calls') <= Len(fold_inputs)
       /\ \A i \in 1..Len(calls') : calls'[i].input = fold_inputs[i]
       /\ \A i \in 1..Len(calls) : calls'[i] = calls[i] /\ calls[i].exc = NoExc
       /\ Last(calls').exc # NoExc =>
            /\ pc' = "raised"
            /\ raised' = Last(calls').exc
            /\ \A d \in DOMAIN fs :
                 /\ d \in DOMAIN fs'
                 /\ \A n \in DOMAIN fs[d] :
                      n \in DOMAIN fs'[d] /\ fs'[d][n] = fs[d][n]]_vars

\* the call the step has just made, a step of main's loop adding one call
CallMade == Len(calls') = Len(calls) + 1

\* C11: in a call with a model runner given (and a fold input with chains)
\* the model parameters are read first: before the data pipeline is started the
\* parameters are loaded, and a failure to load them ends the call with the
\* data pipeline not run and no file written; in a call with model_runner None
\* the parameters are never read and neither predict_structure nor
\* write_outputs is called.
C11_ParamsBeforePipeline ==
  [][CallMade =>
       LET call == Last(calls')
           ran(event) == Places(call, event) # {}
       IN /\ (model_runner # <<>> /\ call.exc # NoChainsError) =>
               /\ call.events # <<>> /\ call.events[1] = "model_params"
               /\ Cardinality(Places(call, "model_params")) = 1
               /\ ran("data_pipeline") => model_runner'[1].model_params_cached
               /\ call.exc = ParamsError =>
                    /\ ~model_runner[1].model_params_cached
                    /\ call.events = <<"model_params">>
                    /\ fs' = fs
                    /\ pc' = "raised" /\ raised' = ParamsError
               /\ call.exc # ParamsError => model_runner'[1].model_params_cached
          /\ model_runner = <<>> =>
               /\ ~ran("model_params")
               /\ ~ran("predict_structure")
               /\ ~ran("write_outputs")
               /\ model_runner' = <<>>
               /\ call.exc # ParamsError]_vars

\* the parameters could not be loaded in a run that was to run the data
\* pipeline too: the call ended there, nothing written
C11_Witness ==
  /\ pc = "raised"
  /\ raised = ParamsError
  /\ data_pipeline_config # <<>>
  /\ model_runner # <<>>
  /\ Len(calls) = 1
  /\ calls[1].events = <<"model_params">>
  /\ fs = <<>>

\* the calls that wrote their output
Wrote(call) == Places(call, "write_fold_input_json") # {}

\* C12: in one run of main no two process_fold_input calls write into the same
\* directory, and no call writes into a directory that was non-empty when the
\* call began, fold inputs of one sanitised name processed within one second
\* included.
C12_DistinctFreshOutputDirs ==
  /\ \A i, j \in 1..Len(calls) :
       (i < j /\ Wrote(calls[i]) /\ Wrote(calls[j])) =>
         calls[i].output_dir # calls[j].output_dir
  /\ \A i \in 1..Len(calls) : Wrote(calls[i]) => ~calls[i].found_nonempty

\* C13: when the script is started from its entry point, XLA_FLAGS holds the
\* workaround flag --xla_gpu_enable_triton_gemm=false at the time main is
\* called, whatever the value of cuda_compute_7x.
C13_TritonGemmFlagSetWhenMainIsCalled ==
  [][pc = "script" =>
       /\ pc' = "main"
       /\ environ' # <<>>
       /\ FlagIn(TritonGemmFlag, environ'[1])]_vars


====
